---------------------------- MODULE Spec2Model ----------------------------
(***************************************************************************)
(* A model of news_dashboard.py: the scraping run (__main__), the parallel *)
(* sentiment analysis, the historical store kept in historical_data.csv    *)
(* and the recommendation aggregator.                                      *)
(*                                                                         *)
(* Texts are sequences of one-character strings, so that Python's          *)
(* substring test (`in`), str.lower() and str.strip() are computed and not *)
(* assumed.  A confidence is kept in hundredths (6667 stands for 66.67).   *)
(***************************************************************************)
EXTENDS Integers, Sequences, FiniteSets, TLC

\* ------------------------------------------------------------- bounds
\* Most articles one scrape yields in the model.
MaxArticles == 2
\* Most rows the historical store holds in the model (runs stop before).
MaxRows == 6
\* Most entries (current records plus historical rows) given to the
\* aggregator when it is checked as a pure function.
MaxEntries == 3

\* ------------------------------------------------------------- strings
Upper == <<"A","B","C","D","E","F","G","H","I","J","K","L","M",
           "N","O","P","Q","R","S","T","U","V","W","X","Y","Z">>
Lower == <<"a","b","c","d","e","f","g","h","i","j","k","l","m",
           "n","o","p","q","r","s","t","u","v","w","x","y","z">>

UpperSet == {Upper[i] : i \in 1..Len(Upper)}
LowerOf == [c \in UpperSet |-> Lower[CHOOSE i \in 1..Len(Upper) : Upper[i] = c]]

LowerChar(c) == IF c \in UpperSet THEN LowerOf[c] ELSE c

\* str.lower()
ToLower(s) == [i \in 1..Len(s) |-> LowerChar(s[i])]

\* needle in hay
Contains(needle, hay) ==
    \E i \in 0..(Len(hay) - Len(needle)) :
        SubSeq(hay, i + 1, i + Len(needle)) = needle

Whitespace == {" ", "\n", "\t", "\r"}

RECURSIVE LStrip(_)
LStrip(s) == IF s # <<>> /\ Head(s) \in Whitespace THEN LStrip(Tail(s)) ELSE s

RECURSIVE RStrip(_)
RStrip(s) ==
    IF s # <<>> /\ s[Len(s)] \in Whitespace
    THEN RStrip(SubSeq(s, 1, Len(s) - 1))
    ELSE s

\* str.strip()
Strip(s) == RStrip(LStrip(s))

RECURSIVE Join(_)
\* "".join(parts)
Join(parts) == IF parts = <<>> THEN <<>> ELSE Head(parts) \o Join(Tail(parts))

Digit(n) == <<"0","1","2","3","4","5","6","7","8","9">>[n + 1]

\* ------------------------------------------------------------- words
AAPL == <<"A","A","P","L">>
TSLA == <<"T","S","L","A">>
AMZN == <<"A","M","Z","N">>
GOOGL == <<"G","O","O","G","L">>
MSFT == <<"M","S","F","T">>
stocks_of_interest == <<AAPL, TSLA, AMZN, GOOGL, MSFT>>

KwBuy == <<"b","u","y">>
KwSell == <<"s","e","l","l">>
KwHold == <<"h","o","l","d">>

\* "AAPL: sell"
TxtAaplSell == AAPL \o <<":"," ">> \o KwSell
\* "AAPL: buy"
TxtAaplBuy == AAPL \o <<":"," ">> \o KwBuy
\* "AAPL TSLA Hold": two symbols, the keyword capitalised
TxtBothHold == AAPL \o <<" ">> \o TSLA \o <<" ","H","o","l","d">>
\* "TSLA aapl sell BUY": one symbol, the other only in lower case; "buy" in
\* upper case and after "sell" in the text
TxtTslaSellBuy ==
    TSLA \o <<" ","a","a","p","l"," ">> \o KwSell \o <<" ","B","U","Y">>
\* "AAPL outlook": a symbol and no keyword
TxtNoKeyword == AAPL \o <<" ","o","u","t","l","o","o","k">>
\* "N/A": a whole text that read_csv takes for a missing value
TxtNA == <<"N","/","A">>
\* "Unable to analyze sentiment."
UnableText ==
    <<"U","n","a","b","l","e"," ","t","o"," ","a","n","a","l","y","z","e"," ",
      "s","e","n","t","i","m","e","n","t",".">>

\* ------------------------------------------------------------- aggregator
Labels == {"buy", "sell", "hold"}
NoRecommendation == "No recommendation"

\* The orders in which iterating set(sentiments) can yield the labels: the
\* order follows the strings' hashes, which Python draws anew for every
\* interpreter process (<<>> until the process first hashes a label).
HashOrders == {o \in [1..3 -> Labels] : \A i, j \in 1..3 : i # j => o[i] # o[j]}

RECURSIVE Repeat(_, _)
\* [label] * k
Repeat(label, k) == IF k <= 0 THEN <<>> ELSE <<label>> \o Repeat(label, k - 1)

\* list.count
Count(votes, label) == Cardinality({i \in 1..Len(votes) : votes[i] = label})

\* The keyword scan of one sentiment text: "none" when no branch is taken.
ClassifySellFirst(text) ==
    LET low == ToLower(text)
    IN  IF Contains(KwSell, low) THEN "sell"
        ELSE IF Contains(KwBuy, low) THEN "buy"
        ELSE IF Contains(KwHold, low) THEN "hold"
        ELSE "none"

Classify(text) ==
    LET low == ToLower(text)
    IN  IF Contains(KwBuy, low) THEN "buy"
        ELSE IF Contains(KwSell, low) THEN "sell"
        ELSE IF Contains(KwHold, low) THEN "hold"
        ELSE "none"

\* What one current record adds to one stock's vote list.
CurrentVotes(sentiment, stock, rw) ==
    IF Contains(stock, sentiment)
    THEN LET label == Classify(sentiment)
         IN  IF label # "none" THEN Repeat(label, rw) ELSE <<>>
    ELSE <<>>

RECURSIVE CurrentLoop(_, _, _)
\* The vote list of one stock after the loop over sentiment_results.
CurrentLoop(results, stock, rw) ==
    IF results = <<>> THEN <<>>
    ELSE CurrentVotes(Head(results)[2], stock, rw)
         \o CurrentLoop(Tail(results), stock, rw)

\* historical_decay = 0.5, as the fraction DecayNum / DecayDen
DecayNum == 1
DecayDen == 2

RECURSIVE Pow(_, _)
Pow(b, e) == IF e = 0 THEN 1 ELSE b * Pow(b, e - 1)

\* int(max(1, recency_weight * historical_decay ** index))
HistWeightOne(rw, index) == 1

HistWeight(rw, index) ==
    LET floor == (rw * Pow(DecayNum, index)) \div Pow(DecayDen, index)
    IN  IF floor >= 1 THEN floor ELSE 1

\* A missing value of a loaded table (NaN); no text equals it.
NaN == <<"NaN">>

\* The dtype pandas gives a column: object when the table has no row or some
\* cell holds a text, float64 when every cell is NaN.
IsStringColumn(table) ==
    table = <<>> \/ \E i \in 1..Len(table) : table[i].sentiment # NaN

\* historical_data["sentiment"].str.contains(stock, na=False)
HistMatches(cell, stock) == cell # NaN /\ Contains(stock, cell)

RECURSIVE HistoricalLoop(_, _, _, _)
\* The votes the rows from position k on (index k - 1) add to one stock.
HistoricalLoop(table, k, stock, rw) ==
    IF k > Len(table) THEN <<>>
    ELSE (IF HistMatches(table[k].sentiment, stock)
          THEN LET label == Classify(table[k].sentiment)
               IN  IF label # "none"
                   THEN Repeat(label, HistWeight(rw, k - 1))
                   ELSE <<>>
          ELSE <<>>)
         \o HistoricalLoop(table, k + 1, stock, rw)

\* round(x, 2) of x = num / den, in hundredths: the nearest, the even one
\* of two equally near.
RoundTruncate(num, den) == (100 * num) \div den

Round2(num, den) ==
    LET q == (100 * num) \div den
        r == (100 * num) % den
    IN  IF 2 * r < den THEN q
        ELSE IF 2 * r > den THEN q + 1
        ELSE IF q % 2 = 0 THEN q ELSE q + 1

\* max(sentiment_counts, key=sentiment_counts.get): the first label, in the
\* iteration order of the dict, with the highest count.
FirstPresent(votes, order) ==
    LET present == {i \in 1..3 : Count(votes, order[i]) > 0}
    IN  order[CHOOSE i \in present : \A j \in present : i <= j]

MaxLabel(votes, order) ==
    LET present == {i \in 1..3 : Count(votes, order[i]) > 0}
        best == {i \in present :
                    \A j \in present : Count(votes, order[j]) <= Count(votes, order[i])}
    IN  order[CHOOSE i \in best : \A j \in best : i <= j]

\* The entry of final_recommendations for one vote list.
Finalize(votes, order) ==
    IF votes # <<>>
    THEN LET final_sentiment == MaxLabel(votes, order)
         IN  [recommendation |-> final_sentiment,
              confidence |-> Round2(Count(votes, final_sentiment) * 100, Len(votes))]
    ELSE [recommendation |-> NoRecommendation, confidence |-> 0]

\* ------------------------------------------------------------- state
VARIABLES
    pc,                     \* where the script (or the caller) stands
    news_data,              \* the articles of this run, in feed order
    fileState,              \* historical_data.csv: "missing", "present", "unreadable"
    fileRows,               \* its rows, when present
    now,                    \* the clock datetime.now() reads
    tasks,                  \* per article: "queued", "posted", "done"
    replies,                \* per article: what the oracle call came to
    sentiment_results,      \* the (article, sentiment) pairs
    historical_data,        \* the table the aggregator is given
    stocks,                 \* the tracked symbols
    recency_weight,
    hashOrder,              \* this process's iteration order of a label set
    current_votes,          \* per stock, the votes after the first loop
    stock_sentiments,       \* per stock, the votes after both loops
    agg_status,             \* "pending", "returned", "raised"
    final_recommendations,  \* per stock, in the order of stocks
    earlier,                \* what an earlier process returned on these inputs
    displayed,              \* what display_ui has written
    calls,                  \* this run's calls: oracle, aggregate, display, save
    fileAtStart             \* the store when this run began

vars == <<pc, news_data, fileState, fileRows, now, tasks, replies,
          sentiment_results, historical_data, stocks, recency_weight,
          hashOrder, current_votes, stock_sentiments, agg_status,
          final_recommendations, earlier, displayed, calls, fileAtStart>>

aggVars == <<hashOrder, current_votes, stock_sentiments, agg_status,
             final_recommendations>>

\* ------------------------------------------------------------- rows
Columns == {"title", "snippet", "link", "date", "source", "sentiment"}

\* The i-th article of a feed: the fields differ from article to article.
Article(i) ==
    [title |-> <<"t", Digit(i)>>, snippet |-> <<"s", Digit(i)>>,
     link |-> <<"l", Digit(i)>>, date |-> <<"d", Digit(i)>>,
     source |-> <<"o", Digit(i)>>]

\* A row of a table whose sentiment cell is given.
HistRow(cell) ==
    [title |-> <<"t">>, snippet |-> <<"s">>, link |-> <<"l">>,
     date |-> <<"d">>, source |-> <<"o">>, sentiment |-> cell]

\* ------------------------------------------------------------- aggregate
\* aggregate_recommendations_with_history, evaluated in this process.
AggregateRaises(results, stks, table, rw) ==
    stks # <<>> /\ ~IsStringColumn(table)

AggregateCall ==
    /\ IF hashOrder = <<>> THEN hashOrder' \in HashOrders ELSE UNCHANGED hashOrder
    /\ current_votes' =
           [k \in 1..Len(stocks) |->
               CurrentLoop(sentiment_results, stocks[k], recency_weight)]
    /\ IF AggregateRaises(sentiment_results, stocks, historical_data, recency_weight)
       THEN /\ agg_status' = "raised"
            /\ stock_sentiments' = current_votes'
            /\ final_recommendations' = <<>>
       ELSE /\ agg_status' = "returned"
            /\ stock_sentiments' =
                   [k \in 1..Len(stocks) |->
                       current_votes'[k]
                       \o HistoricalLoop(historical_data, 1, stocks[k], recency_weight)]
            /\ final_recommendations' =
                   [k \in 1..Len(stocks) |->
                       Finalize(stock_sentiments'[k], hashOrder')]

\* ------------------------------------------------------------- the aggregator alone
CurrentTexts ==
    {TxtAaplSell, TxtAaplBuy, TxtBothHold, TxtTslaSellBuy, TxtNoKeyword}
HistCells == {TxtAaplSell, TxtAaplBuy, NaN}
RecencyWeights == {2, 3}

SeqsUpTo(S, n) == UNION {[1..m -> S] : m \in 0..n}

InitAgg ==
    /\ pc = "caller"
    /\ news_data = <<>>
    /\ fileState = "missing"
    /\ fileRows = <<>>
    /\ now = 0
    /\ tasks = <<>>
    /\ replies = <<>>
    /\ \E texts \in SeqsUpTo(CurrentTexts, MaxEntries) :
           sentiment_results = [i \in 1..Len(texts) |-> <<Article(i), texts[i]>>]
    /\ \E cells \in SeqsUpTo(HistCells, MaxEntries) :
           /\ Len(cells) + Len(sentiment_results) <= MaxEntries
           /\ historical_data = [i \in 1..Len(cells) |-> HistRow(cells[i])]
    /\ stocks \in {<<AAPL>>, <<AAPL, TSLA>>}
    /\ recency_weight \in RecencyWeights
    /\ hashOrder = <<>>
    /\ current_votes = <<>>
    /\ stock_sentiments = <<>>
    /\ agg_status = "pending"
    /\ final_recommendations = <<>>
    /\ earlier = [status |-> "pending", recs |-> <<>>]
    /\ displayed = <<>>
    /\ calls = [oracle |-> 0, aggregate |-> 0, display |-> 0, save |-> 0]
    /\ fileAtStart = [state |-> "missing", rows |-> <<>>]

\* The caller evaluates the aggregator on the inputs.
AggEvaluate ==
    /\ pc = "caller"
    /\ AggregateCall
    /\ UNCHANGED <<pc, news_data, fileState, fileRows, now, tasks, replies,
                   sentiment_results, historical_data, stocks, recency_weight,
                   earlier, displayed, calls, fileAtStart>>

\* The caller's process ends and another one starts on the same inputs: the
\* new interpreter draws its string hashes anew.
AggRestart ==
    /\ pc = "caller"
    /\ agg_status # "pending"
    /\ earlier.status = "pending"
    /\ earlier' = [status |-> agg_status, recs |-> final_recommendations]
    /\ hashOrder' = <<>>
    /\ agg_status' = "pending"
    /\ final_recommendations' = <<>>
    /\ current_votes' = <<>>
    /\ stock_sentiments' = <<>>
    /\ UNCHANGED <<pc, news_data, fileState, fileRows, now, tasks, replies,
                   sentiment_results, historical_data, stocks, recency_weight,
                   displayed, calls, fileAtStart>>

NextAgg == AggEvaluate \/ AggRestart

SpecAgg == InitAgg /\ [][NextAgg]_vars

\* ------------------------------------------------------------- the oracle
\* One line of the oracle's newline-delimited reply.
Fragment(text) == [kind |-> "fragment", text |-> text]   \* {"response": text}
ObjectLine == [kind |-> "object", text |-> <<>>]         \* {"done": true}, {"error": ...}
MalformedLine == [kind |-> "malformed", text |-> <<>>]   \* not JSON: JSONDecodeError
ScalarLine == [kind |-> "scalar", text |-> <<>>]         \* JSON, not a container: 5

RECURSIVE Fragments(_)
\* The list `result` of process_ollama_response.
Fragments(lines) ==
    IF lines = <<>> THEN <<>>
    ELSE (IF Head(lines).kind = "fragment" THEN <<Head(lines).text>> ELSE <<>>)
         \o Fragments(Tail(lines))

\* `"response" in json_line` raises TypeError on a number; only
\* JSONDecodeError is caught in the loop.
ProcessRaises(lines) == \E i \in 1..Len(lines) : lines[i].kind = "scalar"

process_ollama_response(lines) == Strip(Join(Fragments(lines)))

\* What one call of the oracle comes to: the request fails, or a reply.
NetworkError == [kind |-> "error", lines |-> <<>>]
Reply(lines) == [kind |-> "reply", lines |-> lines]

\* "AAPL: " + "buy\n", after a line that is not JSON
ReplyBuy ==
    Reply(<<MalformedLine, Fragment(<<" ">> \o AAPL \o <<":"," ">>),
            Fragment(KwBuy \o <<"\n">>), ObjectLine>>)
\* an error object: no fragment at all, the text is empty
ReplyNoFragment == Reply(<<ObjectLine>>)
\* the whole text is "N/A"
ReplyNA == Reply(<<Fragment(TxtNA)>>)
\* a fragment, then a line that parses to a number
ReplyScalar == Reply(<<Fragment(TxtAaplSell), ScalarLine>>)

OracleOutcomes == {NetworkError, ReplyBuy, ReplyNoFragment, ReplyNA, ReplyScalar}

\* analyze_sentiment_for_article: what the call returns, or that it raised.
AnalyzePropagates(article, outcome) ==
    IF outcome.kind = "error" \/ ProcessRaises(outcome.lines)
    THEN [raised |-> TRUE, value |-> <<>>]
    ELSE [raised |-> FALSE,
          value |-> <<article, process_ollama_response(outcome.lines)>>]

analyze_sentiment_for_article(article, outcome) ==
    IF outcome.kind = "error" \/ ProcessRaises(outcome.lines)
    THEN [raised |-> FALSE, value |-> <<article, UnableText>>]
    ELSE [raised |-> FALSE,
          value |-> <<article, process_ollama_response(outcome.lines)>>]

\* ------------------------------------------------------------- the store
\* The texts read_csv takes for a missing value (a part of its default list).
NAValues ==
    {<<>>, TxtNA, <<"N","A">>, <<"N","a","N">>, <<"n","a","n">>,
     <<"n","u","l","l">>, <<"N","U","L","L">>, <<"n","/","a">>}

ReadCell(text) == IF text \in NAValues THEN NaN ELSE text
\* to_csv writes a missing value as the empty field
WriteCell(cell) == IF cell = NaN THEN <<>> ELSE cell

\* pd.read_csv of the rows of the file.  (No text of the model is a number,
\* so no column is read as numeric.)
ReadCsv(rows) ==
    [i \in 1..Len(rows) |-> [c \in Columns |-> ReadCell(rows[i][c])]]
\* DataFrame.to_csv(index=False)
WriteCsv(table) ==
    [i \in 1..Len(table) |-> [c \in Columns |-> WriteCell(table[i][c])]]

\* load_historical_data: the table, or that read_csv raised something other
\* than FileNotFoundError.
load_historical_data(fstate, rows) ==
    [raised |-> fstate = "unreadable",
     table |-> IF fstate = "present" THEN ReadCsv(rows) ELSE <<>>]

\* "\n--- <time> ---\n"
Banner(t) == <<"\n","-","-","-"," ", Digit(t), " ","-","-","-","\n">>

date_separator_row(t) ==
    [title |-> Banner(t), snippet |-> <<>>, link |-> <<>>, date |-> <<>>,
     source |-> <<>>, sentiment |-> <<>>]

\* The frame current_data of __main__.
CurrentData(results) ==
    [i \in 1..Len(results) |->
        [title |-> results[i][1].title, snippet |-> results[i][1].snippet,
         link |-> results[i][1].link, date |-> results[i][1].date,
         source |-> results[i][1].source, sentiment |-> results[i][2]]]

\* save_historical_data: the rows written to the file.
updated_data(historical, t, new_data) ==
    historical \o <<date_separator_row(t)>> \o new_data

\* ------------------------------------------------------------- the run
NoCalls == [oracle |-> 0, aggregate |-> 0, display |-> 0, save |-> 0]
DefaultRecencyWeight == 2

\* news_data.empty
NewsEmptyNever(df) == FALSE

NewsEmpty(df) == df = <<>>

Failed == {"failed:scrape", "failed:load", "failed:analyze",
           "failed:aggregate", "failed:save"}

Init ==
    /\ pc = "start"
    /\ news_data = <<>>
    /\ fileState \in {"missing", "unreadable"}
    /\ fileRows = <<>>
    /\ now = 0
    /\ tasks = <<>>
    /\ replies = <<>>
    /\ sentiment_results = <<>>
    /\ historical_data = <<>>
    /\ stocks = stocks_of_interest
    /\ recency_weight = DefaultRecencyWeight
    /\ hashOrder = <<>>
    /\ current_votes = <<>>
    /\ stock_sentiments = <<>>
    /\ agg_status = "pending"
    /\ final_recommendations = <<>>
    /\ earlier = [status |-> "pending", recs |-> <<>>]
    /\ displayed = <<>>
    /\ calls = NoCalls
    /\ fileAtStart = [state |-> fileState, rows |-> fileRows]

\* Room in the store for a run of n articles (the bound of the model).
Room(n) == Len(fileRows) + 1 + n <= MaxRows

\* get_news_data returns the scraped articles (none, or some).
Scrape ==
    /\ pc = "start"
    /\ \E n \in 0..MaxArticles :
          /\ n > 0 => Room(n)
          /\ news_data' = [i \in 1..n |-> Article(i)]
    /\ pc' = "scraped"
    /\ UNCHANGED <<fileState, fileRows, now, tasks, replies, sentiment_results,
                   historical_data, stocks, recency_weight, aggVars, earlier,
                   displayed, calls, fileAtStart>>

\* requests.get raises: the script ends with the exception.
ScrapeFails ==
    /\ pc = "start"
    /\ pc' = "failed:scrape"
    /\ UNCHANGED <<news_data, fileState, fileRows, now, tasks, replies,
                   sentiment_results, historical_data, stocks, recency_weight,
                   aggVars, earlier, displayed, calls, fileAtStart>>

\* "No data to process. Exiting."
ExitEmpty ==
    /\ pc = "scraped"
    /\ NewsEmpty(news_data)
    /\ pc' = "done"
    /\ UNCHANGED <<news_data, fileState, fileRows, now, tasks, replies,
                   sentiment_results, historical_data, stocks, recency_weight,
                   aggVars, earlier, displayed, calls, fileAtStart>>

\* historical_data = load_historical_data(); the executor gets one task per
\* article.
LoadHistory ==
    /\ pc = "scraped"
    /\ ~NewsEmpty(news_data)
    /\ LET loaded == load_historical_data(fileState, fileRows)
       IN  IF loaded.raised
           THEN /\ pc' = "failed:load"
                /\ UNCHANGED <<historical_data, tasks, replies>>
           ELSE /\ pc' = "analyze"
                /\ historical_data' = loaded.table
                /\ tasks' = [i \in 1..Len(news_data) |->
                                [state |-> "queued", raised |-> FALSE, value |-> <<>>]]
                /\ replies' = [i \in 1..Len(news_data) |-> "none"]
    /\ UNCHANGED <<news_data, fileState, fileRows, now, sentiment_results,
                   stocks, recency_weight, aggVars, earlier, displayed, calls,
                   fileAtStart>>

\* A worker posts the request of article i.
Post(i) ==
    /\ pc = "analyze"
    /\ tasks[i].state = "queued"
    /\ tasks' = [tasks EXCEPT ![i].state = "posted"]
    /\ calls' = [calls EXCEPT !.oracle = @ + 1]
    /\ UNCHANGED <<pc, news_data, fileState, fileRows, now, replies,
                   sentiment_results, historical_data, stocks, recency_weight,
                   aggVars, earlier, displayed, fileAtStart>>

\* The call of article i ends; the worker's function returns (or raises).
Complete(i) ==
    /\ pc = "analyze"
    /\ tasks[i].state = "posted"
    /\ \E outcome \in OracleOutcomes :
          LET r == analyze_sentiment_for_article(news_data[i], outcome)
          IN  /\ replies' = [replies EXCEPT ![i] = outcome]
              /\ tasks' = [tasks EXCEPT ![i] =
                              [state |-> "done", raised |-> r.raised, value |-> r.value]]
    /\ UNCHANGED <<pc, news_data, fileState, fileRows, now, sentiment_results,
                   historical_data, stocks, recency_weight, aggVars, earlier,
                   displayed, calls, fileAtStart>>

\* list(executor.map(...)): the results in the order of the articles; the
\* first exception a worker raised is raised again here.
Gather ==
    /\ pc = "analyze"
    /\ \A i \in 1..Len(tasks) : tasks[i].state = "done"
    /\ IF \E i \in 1..Len(tasks) : tasks[i].raised
       THEN /\ pc' = "failed:analyze"
            /\ UNCHANGED sentiment_results
       ELSE /\ pc' = "aggregate"
            /\ sentiment_results' = [i \in 1..Len(tasks) |-> tasks[i].value]
    /\ UNCHANGED <<news_data, fileState, fileRows, now, tasks, replies,
                   historical_data, stocks, recency_weight, aggVars, earlier,
                   displayed, calls, fileAtStart>>

\* stock_recommendations = aggregate_recommendations_with_history(...)
Aggregate ==
    /\ pc = "aggregate"
    /\ AggregateCall
    /\ calls' = [calls EXCEPT !.aggregate = @ + 1]
    /\ pc' = IF agg_status' = "raised" THEN "failed:aggregate" ELSE "save"
    /\ UNCHANGED <<news_data, fileState, fileRows, now, tasks, replies,
                   sentiment_results, historical_data, stocks, recency_weight,
                   earlier, displayed, fileAtStart>>

\* save_historical_data(current_data)
Save ==
    /\ pc = "save"
    /\ LET loaded == load_historical_data(fileState, fileRows)
       IN  IF loaded.raised
           THEN /\ pc' = "failed:save"
                /\ UNCHANGED <<fileState, fileRows, now>>
           ELSE /\ pc' = "display"
                /\ now' = now + 1
                /\ fileState' = "present"
                /\ fileRows' = WriteCsv(updated_data(loaded.table, now',
                                                     CurrentData(sentiment_results)))
    /\ calls' = [calls EXCEPT !.save = @ + 1]
    /\ UNCHANGED <<news_data, tasks, replies, sentiment_results, historical_data,
                   stocks, recency_weight, aggVars, earlier, displayed,
                   fileAtStart>>

\* display_ui(stock_recommendations)
Display ==
    /\ pc = "display"
    /\ displayed' = final_recommendations
    /\ calls' = [calls EXCEPT !.display = @ + 1]
    /\ pc' = "done"
    /\ UNCHANGED <<news_data, fileState, fileRows, now, tasks, replies,
                   sentiment_results, historical_data, stocks, recency_weight,
                   aggVars, earlier, fileAtStart>>

\* The script is started again, in a new process.
NewRun ==
    /\ pc \in {"done"} \cup Failed
    /\ pc' = "start"
    /\ news_data' = <<>>
    /\ tasks' = <<>>
    /\ replies' = <<>>
    /\ sentiment_results' = <<>>
    /\ historical_data' = <<>>
    /\ hashOrder' = <<>>
    /\ current_votes' = <<>>
    /\ stock_sentiments' = <<>>
    /\ agg_status' = "pending"
    /\ final_recommendations' = <<>>
    /\ displayed' = <<>>
    /\ calls' = NoCalls
    /\ fileAtStart' = [state |-> fileState, rows |-> fileRows]
    /\ UNCHANGED <<fileState, fileRows, now, stocks, recency_weight, earlier>>

Next ==
    \/ Scrape
    \/ ScrapeFails
    \/ ExitEmpty
    \/ LoadHistory
    \/ \E i \in 1..Len(tasks) : Post(i)
    \/ \E i \in 1..Len(tasks) : Complete(i)
    \/ Gather
    \/ Aggregate
    \/ Save
    \/ Display
    \/ NewRun

Spec == Init /\ [][Next]_vars

\* ------------------------------------------------------------- helpers of the claims
Text(i) == sentiment_results[i][2]
Evaluated == agg_status # "pending"
Returned == agg_status = "returned"

HasKeyword(text) ==
    \/ Contains(KwBuy, ToLower(text))
    \/ Contains(KwSell, ToLower(text))
    \/ Contains(KwHold, ToLower(text))

\* No current text and no historical text contains the k-th stock.
Unmatched(k) ==
    /\ \A i \in 1..Len(sentiment_results) : ~Contains(stocks[k], Text(i))
    /\ \A i \in 1..Len(historical_data) :
          historical_data[i].sentiment = NaN
          \/ ~Contains(stocks[k], historical_data[i].sentiment)

\* The highest count among the three labels in a vote list.
TopCount(votes) ==
    CHOOSE c \in 0..Len(votes) :
        /\ \A l \in Labels : Count(votes, l) <= c
        /\ \E l \in Labels : Count(votes, l) = c

Abs(x) == IF x < 0 THEN -x ELSE x

\* ------------------------------------------------------------- C1
C1Scenario ==
    /\ stocks = <<AAPL>>
    /\ recency_weight = 2
    /\ sentiment_results = <<<<Article(1), TxtAaplSell>>>>
    /\ historical_data = <<HistRow(TxtAaplBuy)>>
    /\ Evaluated

\* C1 as stated: with symbols ["AAPL"], recencyWeight 2 and decay 0.5, the
\* current record "AAPL: sell" gives 2 sell votes, the historical entry
\* "AAPL: buy" at row index 0 gives 1 buy vote, and the recommendation is
\* "sell" with confidence 66.67.
C1_AsStated ==
    C1Scenario =>
        /\ Returned
        /\ stock_sentiments[1] = <<"sell", "sell", "buy">>
        /\ final_recommendations[1] = [recommendation |-> "sell", confidence |-> 6667]

\* C1 as amended: in that scenario the historical entry at row index 0 has
\* weight max(1, 2 * 0.5^0) = 2, so AAPL gets 2 sell votes and 2 buy votes;
\* the two labels tie, the recommendation is the one of "sell" and "buy" that
\* the label set yields first, and the confidence is 50.0.
C1_Amended ==
    C1Scenario =>
        /\ Returned
        /\ current_votes[1] = <<"sell", "sell">>
        /\ stock_sentiments[1] = <<"sell", "sell", "buy", "buy">>
        /\ final_recommendations[1].recommendation \in {"sell", "buy"}
        /\ \A i, j \in 1..3 :
              (hashOrder[i] = final_recommendations[1].recommendation
               /\ hashOrder[j] \in {"sell", "buy"}) => i <= j
        /\ final_recommendations[1].confidence = 5000

C1_Witness == C1Scenario /\ Returned

\* ------------------------------------------------------------- C4
BothEvaluated == Evaluated /\ earlier.status # "pending"

\* C4 as stated: two evaluations of the aggregator on identical inputs return
\* the same label and the same confidence for every symbol, ties included.
C4_AsStated ==
    BothEvaluated =>
        /\ earlier.status = agg_status
        /\ earlier.recs = final_recommendations

\* C4 as amended: two evaluations on identical inputs, in two interpreter
\* processes, both raise or both return; when they return, every symbol gets
\* the same confidence, and the same label unless two or three labels tie for
\* its highest vote count, in which case each evaluation reports one of the
\* tied labels (the one its process's label set yields first).
C4_Amended ==
    BothEvaluated =>
        /\ earlier.status = agg_status
        /\ Returned =>
              \A k \in 1..Len(stocks) :
                 LET a == earlier.recs[k]
                     b == final_recommendations[k]
                     votes == stock_sentiments[k]
                 IN  /\ a.confidence = b.confidence
                     /\ a.recommendation # b.recommendation =>
                           /\ a.recommendation \in Labels
                           /\ b.recommendation \in Labels
                           /\ Count(votes, a.recommendation) = TopCount(votes)
                           /\ Count(votes, b.recommendation) = TopCount(votes)

\* Two evaluations that disagree on a symbol whose three labels tie.
C4_Witness ==
    /\ BothEvaluated
    /\ Returned
    /\ \E k \in 1..Len(stocks) :
          /\ \A l \in Labels : Count(stock_sentiments[k], l) = TopCount(stock_sentiments[k])
          /\ TopCount(stock_sentiments[k]) > 0
          /\ earlier.recs[k].recommendation # final_recommendations[k].recommendation

\* ------------------------------------------------------------- C5
\* C5: for every symbol with a non-empty vote list, the reported label has the
\* highest count among buy, sell and hold, the reported confidence is
\* 100 * count / total to the nearest hundredth, and it lies in [0, 100].
C5_LabelAndConfidence ==
    Returned =>
        \A k \in 1..Len(stocks) :
            stock_sentiments[k] # <<>> =>
                LET r == final_recommendations[k]
                    n == Len(stock_sentiments[k])
                    c == Count(stock_sentiments[k], r.recommendation)
                IN  /\ r.recommendation \in Labels
                    /\ \A l \in Labels : Count(stock_sentiments[k], l) <= c
                    /\ 2 * Abs(10000 * c - r.confidence * n) <= n
                    /\ r.confidence >= 0
                    /\ r.confidence <= 10000

\* A symbol with votes of two labels and a confidence that needed rounding up.
C5_Witness ==
    /\ Returned
    /\ \E k \in 1..Len(stocks) :
          LET r == final_recommendations[k]
              n == Len(stock_sentiments[k])
              c == Count(stock_sentiments[k], r.recommendation)
          IN  /\ n > c
              /\ c > 0
              /\ r.confidence * n > 10000 * c

\* ------------------------------------------------------------- C6
\* C6 as stated: every tracked symbol that no current and no historical
\* sentiment text contains gets the recommendation "no recommendation" with
\* confidence 0.0 from the aggregator.  (The label is compared without
\* regard to the case of its first letter, which the code writes as a
\* capital: what is refuted here is refuted for the exact spelling too.)
C6_AsStated ==
    Evaluated =>
        /\ Returned
        /\ \A k \in 1..Len(stocks) :
              Unmatched(k) =>
                  /\ final_recommendations[k].recommendation
                        \in {"no recommendation", "No recommendation"}
                  /\ final_recommendations[k].confidence = 0

\* ------------------------------------------------------------- C10
\* The records that add votes to the k-th stock, and the label of each.
Voters(k) ==
    {i \in 1..Len(sentiment_results) :
        Contains(stocks[k], Text(i)) /\ HasKeyword(Text(i))}
LabelOf(text) ==
    IF Contains(KwBuy, ToLower(text)) THEN "buy"
    ELSE IF Contains(KwSell, ToLower(text)) THEN "sell"
    ELSE "hold"

\* C10: every current record adds, to every tracked symbol its text contains
\* (case-sensitively), exactly recencyWeight votes of one label (buy before
\* sell before hold, keywords matched case-insensitively), and nothing when
\* the text has no keyword or does not contain the symbol.
C10_CurrentVotes ==
    Evaluated =>
        \A k \in 1..Len(stocks) :
            /\ Len(current_votes[k]) = recency_weight * Cardinality(Voters(k))
            /\ \A i \in Voters(k) :
                  LET before == Cardinality({m \in Voters(k) : m < i})
                  IN  \A v \in 1..recency_weight :
                         current_votes[k][before * recency_weight + v] = LabelOf(Text(i))

\* Two symbols, a text naming one of them with "sell" and "BUY", and a text
\* with a symbol and no keyword.
C10_Witness ==
    /\ Evaluated
    /\ Len(stocks) = 2
    /\ recency_weight = 3
    /\ \E i, j \in 1..Len(sentiment_results) :
          /\ Text(i) = TxtTslaSellBuy
          /\ Text(j) = TxtNoKeyword
    /\ current_votes = <<<<>>, <<"buy", "buy", "buy">>>>

\* ------------------------------------------------------------- C2
IsSeparator(row) == \E t \in 1..9 : row = date_separator_row(t)
SeparatorTime(row) == CHOOSE t \in 1..9 : row = date_separator_row(t)

\* C2 as stated: in the store the block of a later run (its date-separator
\* row and its rows) sits ahead of every block of an earlier run.
C2_AsStated ==
    \A i, j \in 1..Len(fileRows) :
        (i < j /\ IsSeparator(fileRows[i]) /\ IsSeparator(fileRows[j])) =>
            SeparatorTime(fileRows[i]) > SeparatorTime(fileRows[j])

\* ------------------------------------------------------------- C3
\* C3 as stated: after a call of save_historical_data the rows that were in
\* the store before the call are an unchanged prefix of the store, followed by
\* exactly one date-separator row and the new run's rows in their order.
C3_AsStated ==
    (calls.save = 1 /\ pc \in {"display", "done"}) =>
        LET before == fileAtStart.rows
            new == CurrentData(sentiment_results)
        IN  /\ Len(fileRows) = Len(before) + 1 + Len(new)
            /\ SubSeq(fileRows, 1, Len(before)) = before
            /\ IsSeparator(fileRows[Len(before) + 1])
            /\ SubSeq(fileRows, Len(before) + 2, Len(fileRows)) = new

\* ------------------------------------------------------------- C7
Fails(outcome) ==
    outcome.kind = "error" \/ \E n \in 1..Len(outcome.lines) : outcome.lines[n].kind = "scalar"

\* C7: a failed oracle call is not propagated: the worker returns its article
\* with "Unable to analyze sentiment.", a text that adds no vote for any
\* symbol; whatever the interleaving, every article gets exactly one record,
\* paired with its own article and its own oracle text.
C7_Isolation ==
    /\ pc # "failed:analyze"
    /\ \A i \in 1..Len(tasks) :
          tasks[i].state = "done" =>
              /\ ~tasks[i].raised
              /\ tasks[i].value[1] = news_data[i]
              /\ tasks[i].value[2] =
                    IF Fails(replies[i]) THEN UnableText
                    ELSE process_ollama_response(replies[i].lines)
              /\ Fails(replies[i]) =>
                    \A k \in 1..Len(stocks) :
                        /\ CurrentVotes(tasks[i].value[2], stocks[k], recency_weight) = <<>>
                        /\ HistoricalLoop(<<HistRow(tasks[i].value[2])>>, 1,
                                          stocks[k], recency_weight) = <<>>
    /\ pc \in {"aggregate", "save", "display", "failed:aggregate", "failed:save"} =>
          /\ Len(sentiment_results) = Len(news_data)
          /\ \A i \in 1..Len(news_data) : sentiment_results[i] = tasks[i].value

\* Two articles gathered: the call of the first failed after the call of the
\* second was posted, the second got its own text.
C7_Witness ==
    /\ pc = "aggregate"
    /\ Len(news_data) = 2
    /\ replies[1] \in {NetworkError, ReplyScalar}
    /\ replies[2] = ReplyBuy
    /\ sentiment_results = <<<<Article(1), UnableText>>, <<Article(2), TxtAaplBuy>>>>

\* ------------------------------------------------------------- C8
\* C8 as stated: load_historical_data never ends in an error because of the
\* store: with the file missing, and with the file present but not readable,
\* it returns the empty table and the run goes on.
C8_AsStated ==
    /\ pc # "failed:load"
    /\ (pc = "analyze" /\ fileState # "present") => historical_data = <<>>

\* ------------------------------------------------------------- C9
\* C9: when the scrape yields no article, the run issues no oracle call, never
\* calls the aggregator nor display_ui, and leaves the store as it was.
C9_EmptyFeed ==
    (news_data = <<>> /\ pc \notin {"start", "failed:scrape"}) =>
        /\ pc \in {"scraped", "done"}
        /\ calls = NoCalls
        /\ tasks = <<>>
        /\ agg_status = "pending"
        /\ displayed = <<>>
        /\ fileState = fileAtStart.state
        /\ fileRows = fileAtStart.rows

\* An empty scrape that ran to its end over a store that holds rows.
C9_Witness ==
    /\ pc = "done"
    /\ news_data = <<>>
    /\ fileState = "present"
    /\ Len(fileRows) > 0

=============================================================================
